---------------------------- MODULE Spec2Model ----------------------------
(***************************************************************************)
(* A model of usl.py (Unity Script Library): the dependency descriptor     *)
(* parser, the recursive dependency resolver, the manifest store and the   *)
(* transactional installer (cmd_add_scripts with InstallationTransaction). *)
(*                                                                         *)
(* Text is modelled as sequences of one-character strings so that strip(), *)
(* lower(), startswith() and the two validation patterns are computed the  *)
(* way the code computes them.                                             *)
(***************************************************************************)
EXTENDS Integers, Sequences, FiniteSets, TLC

(***************************************************************************)
(* Characters and the str methods the parser uses                          *)
(***************************************************************************)
UpperSeq ==
    << "A","B","C","D","E","F","G","H","I","J","K","L","M",
       "N","O","P","Q","R","S","T","U","V","W","X","Y","Z" >>

LowerSeq ==
    << "a","b","c","d","e","f","g","h","i","j","k","l","m",
       "n","o","p","q","r","s","t","u","v","w","x","y","z" >>

UpperLetters == { UpperSeq[i] : i \in 1..Len(UpperSeq) }

LowerLetters == { LowerSeq[i] : i \in 1..Len(LowerSeq) }

Digits == { "0","1","2","3","4","5","6","7","8","9" }

Whitespace == { " ", "\t", "\n", "\r" }

\* str.lower() on one character
LowerChar(c) ==
    IF c \in UpperLetters
    THEN LowerSeq[CHOOSE i \in 1..Len(UpperSeq) : UpperSeq[i] = c]
    ELSE c

\* str.lower()
Lower(s) == [ i \in 1..Len(s) |-> LowerChar(s[i]) ]

RECURSIVE LStrip(_)
LStrip(s) ==
    IF s = << >> THEN s
    ELSE IF Head(s) \in Whitespace THEN LStrip(Tail(s)) ELSE s

RECURSIVE RStrip(_)
RStrip(s) ==
    IF s = << >> THEN s
    ELSE IF s[Len(s)] \in Whitespace THEN RStrip(SubSeq(s, 1, Len(s) - 1)) ELSE s

\* str.strip()
Strip(s) == RStrip(LStrip(s))

\* str.startswith(c) for a one-character prefix
StartsWith(s, c) == Len(s) >= 1 /\ s[1] = c

\* DEP_NAME_PATTERN = ^[a-zA-Z][a-zA-Z0-9_-]*$ with fullmatch
validate_dependency_name(name) ==
    /\ Len(name) >= 1
    /\ name[1] \in UpperLetters \cup LowerLetters
    /\ \A i \in 2..Len(name) :
          name[i] \in UpperLetters \cup LowerLetters \cup Digits \cup {"_", "-"}

\* PACKAGE_ID_PATTERN = ^[a-z][a-z0-9-]*(\.[a-z][a-z0-9-]*){2,}$ with fullmatch:
\* at least three dot-separated segments, each starting with a lowercase
\* letter and continuing with lowercase letters, digits or '-'.
validate_package_id(id) ==
    /\ Len(id) >= 1
    /\ id[1] \in LowerLetters
    /\ \A i \in 1..Len(id) : id[i] \in LowerLetters \cup Digits \cup {"-", "."}
    /\ \A i \in 1..Len(id) :
          id[i] = "." => (i < Len(id) /\ id[i + 1] \in LowerLetters)
    /\ Cardinality({ i \in 1..Len(id) : id[i] = "." }) >= 2

(***************************************************************************)
(* parse_dependencies_file                                                 *)
(***************************************************************************)
ScriptsHeader == << "s","c","r","i","p","t","s",":" >>

PackagesHeader == << "p","a","c","k","a","g","e","s",":" >>

\* The parser's local variables before the first line is read.
ParseStart ==
    [ err             |-> "none",
      current_section |-> "none",
      sections_seen   |-> {},
      seen_in_section |-> {},
      script_deps     |-> << >>,
      package_deps    |-> << >> ]

\* a header seen before accepted again
ParseHeader_NoCheck(st, section) ==
    [st EXCEPT !.sections_seen   = @ \cup {section},
               !.current_section = section,
               !.seen_in_section = {}]

\* A section header line: a second occurrence of the same header raises.
ParseHeader(st, section) ==
    IF section \in st.sections_seen
    THEN [st EXCEPT !.err = "InvalidDependencyFileError"]
    ELSE [st EXCEPT !.sections_seen   = @ \cup {section},
                    !.current_section = section,
                    !.seen_in_section = {}]

\* a name that was seen before appended again
ParseName_KeepDuplicates(st, dep_name) ==
    IF st.current_section = "scripts"
    THEN IF ~validate_dependency_name(dep_name) THEN st
         ELSE [st EXCEPT !.script_deps = Append(@, dep_name)]
    ELSE IF ~validate_package_id(dep_name) THEN st
         ELSE [st EXCEPT !.package_deps = Append(@, dep_name)]

\* An entry line of the current section, given "dep_name =
\* stripped_line[1:].strip()": an invalid or repeated name is skipped.
ParseName(st, dep_name) ==
    IF st.current_section = "scripts"
    THEN IF ~validate_dependency_name(dep_name) THEN st
         ELSE IF dep_name \in st.seen_in_section THEN st
         ELSE [st EXCEPT !.seen_in_section = @ \cup {dep_name},
                         !.script_deps     = Append(@, dep_name)]
    ELSE IF ~validate_package_id(dep_name) THEN st
         ELSE IF dep_name \in st.seen_in_section THEN st
         ELSE [st EXCEPT !.seen_in_section = @ \cup {dep_name},
                         !.package_deps    = Append(@, dep_name)]

\* An entry line ("- name") of the scripts or the packages section.
ParseEntry(st, stripped_line) ==
    CHOOSE result \in
        { ParseName(st, dep_name) : dep_name \in {Strip(Tail(stripped_line))} } :
        TRUE

\* The body of the loop over the lines of the file, given the stripped line.
ParseStripped(st, stripped_line) ==
    LET line_lower == Lower(stripped_line) IN
    IF stripped_line = << >> \/ StartsWith(stripped_line, "#") THEN st
    ELSE IF line_lower = ScriptsHeader THEN ParseHeader(st, "scripts")
    ELSE IF line_lower = PackagesHeader THEN ParseHeader(st, "packages")
    ELSE IF st.current_section # "none" /\ StartsWith(stripped_line, "-")
         THEN ParseEntry(st, stripped_line)
    ELSE st

\* "stripped_line = line.strip()" and the rest of the loop body. (The bound
\* variable holds the stripped line as a value, computed once.)
ParseLine(st, line) ==
    CHOOSE result \in
        { ParseStripped(st, stripped_line) : stripped_line \in {Strip(line)} } :
        TRUE

\* The loop over the lines; a raise ends it. (The bound variable s holds the
\* parser state as a value, so that it is computed once per line.)
RECURSIVE ParseLines(_, _)
ParseLines(st, lines) ==
    CHOOSE result \in
        { IF lines = << >> \/ s.err # "none" THEN s
          ELSE ParseLines(ParseLine(s, Head(lines)), Tail(lines)) : s \in {st} } :
        TRUE

\* A descriptor on disk: absent, unreadable (open/read raises IOError) or a
\* readable sequence of lines.
AbsentFile == [ kind |-> "absent", lines |-> << >> ]

UnreadableFile == [ kind |-> "unreadable", lines |-> << >> ]

TextFile(lines) == [ kind |-> "text", lines |-> lines ]

\* parse_dependencies_file(package_path): the result has err = "none" and the
\* two lists, or err = "InvalidDependencyFileError".
parse_dependencies_file(file) ==
    IF file.kind = "absent" THEN ParseStart
    ELSE IF file.kind = "unreadable"
         THEN [ParseStart EXCEPT !.err = "InvalidDependencyFileError"]
    ELSE ParseLines(ParseStart, file.lines)


(***************************************************************************)
(* Names, identifiers and descriptor files the model draws its inputs from *)
(***************************************************************************)
PA == << "A" >>

PB == << "B" >>

PC == << "C" >>

PD == << "D" >>

\* a well-formed script name that no catalog contains
PX == << "X" >>

ID1 == << "a", ".", "b", ".", "c" >>

ID2 == << "a", ".", "b", ".", "d" >>

ID3 == << "a", ".", "b", ".", "e" >>

\* how many entries one generated scripts section lists at most
MaxDeps == 2

\* how many script names one add command is given at most
MaxRoots == 2

\* the interpreter's recursion limit, scaled down
RecursionLimit == 6

Range(s) == { s[i] : i \in 1..Len(s) }

\* "- name" entry lines, written alternately as "- name" and " -name "
EntryLines(names) ==
    [ i \in 1..Len(names) |->
        IF i % 2 = 1 THEN << "-", " " >> \o names[i]
                     ELSE << " ", "-" >> \o names[i] \o << " " >> ]

\* A dependencies.txt with a scripts section, a packages section and, when
\* dup is set, a second "scripts:" header at the end.
DescriptorText(deps, ids, dup) ==
    TextFile(
        << << "#", " ", "d", "e", "p", "s" >>,
           << "S", "c", "r", "i", "p", "t", "s", ":", " " >> >>
        \o EntryLines(deps)
        \o << << >>, << " ", "p", "a", "c", "k", "a", "g", "e", "s", ":" >> >>
        \o EntryLines(ids)
        \o (IF dup THEN << << "s", "c", "r", "i", "p", "t", "s", ":" >> >>
                   ELSE << >>))

\* the sequences over S of length at most n in which no element repeats
SeqsNoRepeat(S, n) ==
    { s \in UNION { [1..k -> S] : k \in 0..n } :
        \A i, j \in 1..Len(s) : i # j => s[i] # s[j] }

\* the sequences over S of length at most n
SeqsUpTo(S, n) == UNION { [1..k -> S] : k \in 0..n }

\* Every two-package catalog: each package lists up to MaxDeps of A, B, X
\* in any order; at most one descriptor has a duplicate header or is
\* unreadable.
GenericCatalogs ==
    { [ p \in {PA, PB} |->
          IF bad = << p, "unreadable" >> THEN UnreadableFile
          ELSE DescriptorText(g[p],
                              IF p = PA THEN << ID1, ID3 >> ELSE << ID2, ID3 >>,
                              bad = << p, "dup" >>) ]
      : g \in [ {PA, PB} -> SeqsNoRepeat({PA, PB, PX}, MaxDeps) ],
        bad \in { << PX, "none" >>, << PA, "dup" >>, << PB, "dup" >>,
                  << PB, "unreadable" >> } }

\* Four-package catalogs: the diamond (in both listing orders), a diamond
\* whose bottom closes a cycle, a chain with a missing name at its end, and
\* a catalog with invalid and repeated entries and no descriptor for C, D.
DiamondCatalogs ==
    { [ p \in {PA, PB, PC, PD} |->
          IF p = PA THEN DescriptorText(top, << ID1 >>, FALSE)
          ELSE IF p = PB THEN DescriptorText(<< PD >>, << ID2 >>, FALSE)
          ELSE IF p = PC THEN DescriptorText(<< PD >>, << ID2, ID3 >>, FALSE)
          ELSE bottom ]
      : top \in { << PB, PC >>, << PC, PB >> },
        bottom \in { AbsentFile,
                     DescriptorText(<< PA >>, << >>, FALSE),
                     DescriptorText(<< PX >>, << >>, FALSE),
                     DescriptorText(<< >>, << ID1 >>, TRUE) } }

MessyCatalog ==
    [ p \in {PA, PB, PC, PD} |->
        IF p = PA
        THEN TextFile(<< << "-", " ", "D" >>,
                         << "s", "c", "r", "i", "p", "t", "s", ":" >>,
                         << "-", " ", "B", "!" >>,
                         << "-", " ", "B" >>,
                         << "-", "B" >>,
                         << "C" >>,
                         << "P", "A", "C", "K", "A", "G", "E", "S", ":" >>,
                         << "-", " ", "a", ".", "b" >>,
                         << "-" >> \o ID1,
                         << "-", " " >> \o ID1,
                         << "-", " ", "A", ".", "b", ".", "c" >> >>)
        ELSE IF p = PB
        THEN TextFile(<< << "p", "a", "c", "k", "a", "g", "e", "s", ":" >>,
                         << "-", " ", "C" >>,
                         << "-", " " >> \o ID2 >>)
        ELSE AbsentFile ]

ResolveCatalogs == GenericCatalogs \cup DiamondCatalogs \cup {MessyCatalog}

(***************************************************************************)
(* Files: paths of the target tree, file contents, the manifest as JSON    *)
(***************************************************************************)
\* A file path relative to the target directory (or to a package): the
\* directories, the file name and how many ".usl_backup" suffixes follow it.
File(dir, name) == [ dir |-> dir, name |-> name, bk |-> 0 ]

\* dest_item_path.with_suffix(dest_item_path.suffix + ".usl_backup")
UslBackup(path) == [path EXCEPT !.bk = @ + 1]

\* the ancestors of a path below the target directory, outermost first
ParentDirs(path) == [ k \in 1..Len(path.dir) |-> SubSeq(path.dir, 1, k) ]

SKIP_FILES == { "dependencies.txt", ".DS_Store", "Thumbs.db", "desktop.ini" }

\* "src_item_path.name in SKIP_FILES"
IsSkipped(path) == path.bk = 0 /\ path.name \in SKIP_FILES

EmptyMap == [ x \in {} |-> x ]

Put(f, k, v) == [ x \in DOMAIN f \cup {k} |-> IF x = k THEN v ELSE f[x] ]

Del(f, k) == [ x \in DOMAIN f \ {k} |-> f[x] ]

\* JSON values: a string, or an object from identifier to version string,
\* held as a set of << identifier, version >> pairs.
JStr(str) == [ t |-> "str", s |-> str, o |-> {} ]

JObj(pairs) == [ t |-> "obj", s |-> "", o |-> pairs ]

\* The manifest, its backup and its temporary sibling as files: absent, not
\* JSON, cut short by a failed write, or the members of a JSON object in
\* file order (a key may occur more than once).
NoFile == [ kind |-> "absent", members |-> << >> ]

CorruptFile == [ kind |-> "corrupt", members |-> << >> ]

PartialFile == [ kind |-> "partial", members |-> << >> ]

JsonFile(members) == [ kind |-> "json", members |-> members ]

\* json.load: the dict of a JSON object; the last occurrence of a key wins
json_load(file) ==
    LET m    == file.members
        last(k) == CHOOSE i \in 1..Len(m) :
                      m[i][1] = k /\ \A j \in (i + 1)..Len(m) : m[j][1] # k
    IN  [ k \in { m[i][1] : i \in 1..Len(m) } |-> m[last(k)][2] ]

\* only the dependencies key written
json_dump_DependenciesOnly(dict) ==
    JsonFile(<< << "dependencies", dict["dependencies"] >> >>)

\* json.dump: one member per key of the dict
RECURSIVE DumpKeys(_, _)
DumpKeys(dict, keys) ==
    IF keys = {} THEN << >>
    ELSE LET k == CHOOSE x \in keys : TRUE IN
         << << k, dict[k] >> >> \o DumpKeys(dict, keys \ {k})

json_dump(dict) == JsonFile(DumpKeys(dict, DOMAIN dict))

\* "package_id in manifest['dependencies']"
HasPackage(dependencies, package_id) ==
    \E pr \in dependencies.o : pr[1] = package_id

\* the entry overwritten whether or not it was there
add_package_to_manifest_Overwrite(package_id, manifest) ==
    LET m == IF "dependencies" \in DOMAIN manifest THEN manifest
             ELSE Put(manifest, "dependencies", JObj({}))
    IN  [ manifest |->
            [m EXCEPT !["dependencies"].o =
                 { pr \in @ : pr[1] # package_id } \cup { << package_id, "*" >> }],
          ret |-> TRUE ]

\* add_package_to_manifest(package_id, manifest): the manifest after the
\* call and the value returned
add_package_to_manifest(package_id, manifest) ==
    LET m == IF "dependencies" \in DOMAIN manifest THEN manifest
             ELSE Put(manifest, "dependencies", JObj({}))
    IN  IF HasPackage(m["dependencies"], package_id)
        THEN [ manifest |-> m, ret |-> FALSE ]
        ELSE [ manifest |->
                 [m EXCEPT !["dependencies"].o = @ \cup { << package_id, "*" >> }],
               ret |-> TRUE ]

\* every identifier of the model, in sorted() order
SortedIds == << ID1, ID2, ID3 >>

\* every package name of the model, in sorted() order
SortedNames == << PA, PB, PC, PD >>

\* the elements of order that are in S, in that order
RECURSIVE Sorted(_, _)
Sorted(S, order) ==
    IF order = << >> THEN << >>
    ELSE (IF Head(order) \in S THEN << Head(order) >> ELSE << >>)
         \o Sorted(S, Tail(order))

\* "for pkg_id in sorted(packages_to_install): add_package_to_manifest(...)"
RECURSIVE AddAll(_, _)
AddAll(ids, manifest) ==
    IF ids = << >> THEN manifest
    ELSE AddAll(Tail(ids), add_package_to_manifest(Head(ids), manifest).manifest)

(***************************************************************************)
(* State                                                                   *)
(***************************************************************************)
VARIABLES
    desc,                \* catalog: package name -> its dependencies.txt
    pkg_files,           \* catalog: package name -> its files and contents
    command,             \* "add" or "install"
    script_names,        \* add: the names given on the command line
    package_id,          \* install: the identifier given on the command line
    assume_yes,          \* the --yes flag
    init_git,            \* the --init-git flag
    unity_project,       \* cwd has Assets and ProjectSettings directories
    tree0,               \* the target tree when the command started
    dirs0,               \* its directories when the command started
    manifest0,           \* the manifest file when the command started
    pc,                  \* position in the command
    error,               \* the exception that ended the command, if any
    root_idx,            \* index of the root name being resolved
    stack,               \* active calls of resolve_script_dependencies
    visited,             \* the visited set of the current top-level call
    scripts_to_copy,     \* cmd_add_scripts: resolved packages
    packages_to_install, \* cmd_add_scripts: resolved external identifiers
    parse_calls,         \* per package: calls of parse_dependencies_file
    tree,                \* target tree: file path -> content
    dirs,                \* target tree: directories below the target
    manifest_file,       \* Packages/manifest.json
    manifest_backup,     \* Packages/manifest.backup
    manifest_tmp,        \* Packages/manifest.tmp
    tracked_files,       \* txn.tracked_files
    tracked_dirs,        \* txn.tracked_dirs
    committed,           \* txn.committed
    manifest_data,       \* the manifest dict in memory
    pkg_queue,           \* identifiers still to be added, sorted
    copy_queue,          \* packages still to be copied, sorted by name
    files_to_copy,       \* files of the current package still to be copied
    cur,                 \* the file being copied
    rb_idx,              \* rollback: index into the list being undone
    events,              \* what has happened: plan shown, prompt asked, ...
    faults_left,         \* how many more I/O operations may fail
    last_add,            \* the last call of add_package_to_manifest
    git_repo,            \* cwd/.git is a directory
    exit_code,           \* what run_command returned; NoExit while it runs
    parse_st,            \* parse_dependencies_file alone: its local variables
    parse_rest           \* parse_dependencies_file alone: the lines not yet read

inputVars ==
    << desc, pkg_files, command, script_names, package_id, assume_yes,
       init_git, unity_project, tree0, dirs0, manifest0 >>

resolveVars ==
    << root_idx, stack, visited, scripts_to_copy, packages_to_install,
       parse_calls >>

fsVars == << tree, dirs, manifest_file, manifest_backup, manifest_tmp >>

txnVars == << tracked_files, tracked_dirs, committed >>

localVars ==
    << manifest_data, pkg_queue, copy_queue, files_to_copy, cur, rb_idx >>

ghostVars == << events, faults_left, last_add >>

installVars == << fsVars, txnVars, localVars, ghostVars >>

runVars == << git_repo, exit_code >>

parseVars == << parse_st, parse_rest >>

\* what the steps of the add and install handlers leave alone
frameVars == << inputVars, runVars, parseVars >>

vars ==
    << inputVars, pc, error, resolveVars, installVars, runVars, parseVars >>

\* name_map = {s.name: s for s in all_available_scripts}: a package's
\* location is its directory under SCRIPTS_DIR, so the name stands for it.
name_map == [ n \in DOMAIN desc |-> n ]

NoError == [ kind |-> "none", name |-> << >>, by |-> << >> ]

Raise(kind, name, by) == [ kind |-> kind, name |-> name, by |-> by ]

\* no file is being copied; backup is << >> for None, << path >> for a path
NoCur == [ dest |-> File(<< >>, ""), backup |-> << >> ]

NoAdd == [ id |-> << >>, before |-> EmptyMap, after |-> EmptyMap, ret |-> FALSE ]

\* how many I/O operations of one command may fail
MaxFaults == 2

\* run_command has not returned
NoExit == -1

\* Where the run starts (run_command, or a command handler taken alone), the
\* --init-git flag and what cwd looks like.
InitRun(start, gitFlags, repos, projects) ==
    /\ pc = start
    /\ init_git \in gitFlags
    /\ git_repo \in repos
    /\ unity_project \in projects
    /\ exit_code = NoExit
    /\ parse_st = ParseStart
    /\ parse_rest = IF start = "parse" THEN desc[PA].lines ELSE << >>

\* The state when a command starts: the catalog, the command line, the
\* target tree and the manifest are the inputs.
InitWith(catalogs, commands, rootLists, ids, trees, manifests, yes) ==
    /\ \E c \in catalogs : desc = c.desc /\ pkg_files = c.files
    /\ command \in commands
    /\ script_names \in rootLists
    /\ package_id \in ids
    /\ assume_yes \in yes
    /\ \E t \in trees : /\ tree = t.tree /\ dirs = t.dirs
                        /\ tree0 = t.tree /\ dirs0 = t.dirs
    /\ manifest_file \in manifests
    /\ manifest0 = manifest_file
    /\ manifest_backup = NoFile
    /\ manifest_tmp = NoFile
    /\ pc \in {"run", "parse", IF command = "add" THEN "resolve" ELSE "validate"}
    /\ error = NoError
    /\ root_idx = 1
    /\ stack = << >>
    /\ visited = {}
    /\ scripts_to_copy = {}
    /\ packages_to_install = {}
    /\ parse_calls = [ p \in DOMAIN desc |-> 0 ]
    /\ tracked_files = << >>
    /\ tracked_dirs = << >>
    /\ committed = FALSE
    /\ manifest_data = EmptyMap
    /\ pkg_queue = << >>
    /\ copy_queue = << >>
    /\ files_to_copy = {}
    /\ cur = NoCur
    /\ rb_idx = 0
    /\ events = {}
    /\ faults_left = MaxFaults
    /\ last_add = NoAdd

EmptyTree == [ tree |-> EmptyMap, dirs |-> {} ]

\* the resolution phase alone: packages without files, an empty target
InitResolve(catalogs, rootLists) ==
    InitWith({ [ desc |-> d, files |-> [ p \in DOMAIN d |-> EmptyMap ] ]
               : d \in catalogs },
             {"add"}, rootLists, { << >> }, {EmptyTree}, {NoFile}, {TRUE})
    /\ InitRun("resolve", {FALSE}, {FALSE}, {TRUE})

(***************************************************************************)
(* resolve_script_dependencies, one action per step of the recursion       *)
(***************************************************************************)
\* the visited check left out
AlreadyVisited_Never(script_path, vis) == FALSE

\* "if script_path in visited: return set(), set()"
AlreadyVisited(script_path, vis) == script_path \in vis

\* The outcome of calling resolve_script_dependencies(script_path, name_map,
\* vis) up to the start of its loop: an immediate empty return, an exception
\* from the parser, or a new frame.
Enter(script_path, vis) ==
    IF AlreadyVisited(script_path, vis) THEN [ kind |-> "return" ]
    ELSE LET deps == parse_dependencies_file(desc[script_path]) IN
         IF deps.err # "none"
         THEN [ kind |-> "raise" ]
         ELSE [ kind  |-> "frame",
                frame |-> [ script_path |-> script_path,
                            deps        |-> deps.script_deps,
                            scripts     |-> {script_path},
                            packages    |-> Range(deps.package_deps) ] ]

\* The effect of a call on the resolver's state; rest is the caller's stack.
DoCall(script_path, vis, rest) ==
    LET r == Enter(script_path, vis) IN
    IF r.kind = "return"
    THEN /\ stack' = rest
         /\ UNCHANGED << visited, parse_calls, pc, error >>
    ELSE /\ visited' = vis \cup {script_path}
         /\ parse_calls' = [parse_calls EXCEPT ![script_path] = @ + 1]
         /\ IF r.kind = "raise"
            THEN /\ pc' = "failed"
                 /\ error' = Raise("InvalidDependencyFileError", << >>, script_path)
                 /\ stack' = << >>
            ELSE IF Len(rest) >= RecursionLimit
            THEN /\ pc' = "failed"
                 /\ error' = Raise("RecursionError", << >>, script_path)
                 /\ stack' = << >>
            ELSE /\ stack' = Append(rest, r.frame)
                 /\ UNCHANGED << pc, error >>

\* cmd_add_scripts, Phase 1 loop: the next root name. A name that is not in
\* the catalog raises; otherwise resolve_script_dependencies is called with
\* a fresh visited set.
ResolveRoot ==
    /\ pc = "resolve"
    /\ stack = << >>
    /\ root_idx <= Len(script_names)
    /\ LET primary_script_name == script_names[root_idx] IN
       IF primary_script_name \notin DOMAIN name_map
       THEN /\ pc' = "failed"
            /\ error' = Raise("DependencyNotFoundError", primary_script_name, << >>)
            /\ UNCHANGED << stack, visited, parse_calls >>
       ELSE DoCall(name_map[primary_script_name], {}, << >>)
    /\ UNCHANGED << frameVars, root_idx, scripts_to_copy, packages_to_install,
                    installVars >>

\* an unknown name skipped instead of raised
MissingDependency_Skip(dep_name, script_path) ==
    /\ stack' = [stack EXCEPT ![Len(stack)].deps = Tail(@)]
    /\ UNCHANGED << pc, error, visited, parse_calls >>

\* an unknown name reported, the install going on without it
MissingDependency_LogAndContinue(dep_name, script_path) ==
    /\ error' = Raise("DependencyNotFoundError", dep_name, script_path)
    /\ stack' = [stack EXCEPT ![Len(stack)].deps = Tail(@)]
    /\ UNCHANGED << pc, visited, parse_calls >>

\* "if dep_name not in name_map: ... raise DependencyNotFoundError(error_msg)"
MissingDependency(dep_name, script_path) ==
    /\ pc' = "failed"
    /\ error' = Raise("DependencyNotFoundError", dep_name, script_path)
    /\ stack' = << >>
    /\ UNCHANGED << visited, parse_calls >>

\* The loop "for dep_name in deps['scripts']" of the innermost call: a name
\* outside the catalog raises, any other is resolved recursively.
ResolveDep ==
    /\ pc = "resolve"
    /\ stack # << >>
    /\ LET top      == stack[Len(stack)]
           dep_name == Head(top.deps)
           rest     == [stack EXCEPT ![Len(stack)].deps = Tail(@)]
       IN  /\ top.deps # << >>
           /\ IF dep_name \notin DOMAIN name_map
              THEN MissingDependency(dep_name, top.script_path)
              ELSE DoCall(name_map[dep_name], visited, rest)
    /\ UNCHANGED << frameVars, root_idx, scripts_to_copy, packages_to_install,
                    installVars >>

\* the callee's external identifiers not merged
MergeResult_DropPackages(frame, dep) ==
    [frame EXCEPT !.scripts = @ \cup dep.scripts]

\* "scripts.update(dep_scripts); packages.update(dep_packages)"
MergeResult(frame, dep) ==
    [frame EXCEPT !.scripts  = @ \cup dep.scripts,
                  !.packages = @ \cup dep.packages]

\* "return scripts, packages" of the innermost call: the caller, or
\* cmd_add_scripts for a root, merges the two sets into its own.
ResolveReturn ==
    /\ pc = "resolve"
    /\ stack # << >>
    /\ LET top == stack[Len(stack)]
           n   == Len(stack)
       IN  /\ top.deps = << >>
           /\ IF n > 1
              THEN /\ stack' = [ SubSeq(stack, 1, n - 1) EXCEPT
                                   ![n - 1] = MergeResult(@, top) ]
                   /\ UNCHANGED << scripts_to_copy, packages_to_install, root_idx >>
              ELSE /\ stack' = << >>
                   /\ scripts_to_copy' = scripts_to_copy \cup top.scripts
                   /\ packages_to_install' = packages_to_install \cup top.packages
                   /\ root_idx' = root_idx + 1
    /\ UNCHANGED << frameVars, pc, visited, error, parse_calls, installVars >>

\* the plan shown whether or not there is anything to add
ResolveEnd_AlwaysPlan ==
    /\ pc = "resolve"
    /\ stack = << >>
    /\ root_idx > Len(script_names)
    /\ pc' = "plan"
    /\ UNCHANGED << frameVars, error, resolveVars, installVars >>

\* After the last root: nothing to add ends the command, anything else goes
\* on to the installation plan.
ResolveEnd ==
    /\ pc = "resolve"
    /\ stack = << >>
    /\ root_idx > Len(script_names)
    /\ pc' = IF scripts_to_copy = {} /\ packages_to_install = {}
             THEN "done" ELSE "plan"
    /\ UNCHANGED << frameVars, error, resolveVars, installVars >>

NextResolve == ResolveRoot \/ ResolveDep \/ ResolveReturn \/ ResolveEnd

\* the resolution phase of an add command with up to MaxRoots names
SpecResolve ==
    /\ InitResolve(ResolveCatalogs, SeqsUpTo({PA, PB, PX}, MaxRoots))
    /\ [][NextResolve]_vars

(***************************************************************************)
(* cmd_add_scripts after resolution: plan, confirmation, transaction       *)
(***************************************************************************)
\* an I/O operation fails: allowed while the budget of failures lasts
Fault ==
    /\ faults_left > 0
    /\ faults_left' = faults_left - 1

NoFault == UNCHANGED faults_left

\* every exception of the with block reported as ManifestError
RaiseInTransaction_AsManifestError(kind) ==
    /\ error' = Raise("ManifestError", << >>, << >>)
    /\ pc' = IF committed THEN "failed" ELSE "rb_manifest"

\* An exception leaves the with block: __exit__ rolls back unless the
\* transaction is committed.
RaiseInTransaction(kind) ==
    /\ error' = Raise(kind, << >>, << >>)
    /\ pc' = IF committed THEN "failed" ELSE "rb_manifest"

\* Phase 2: the installation plan is logged.
ShowPlan ==
    /\ pc = "plan"
    /\ pc' = "confirm"
    /\ events' = events \cup {"plan"}
    /\ UNCHANGED << frameVars, error, resolveVars, fsVars, txnVars, localVars,
                    faults_left, last_add >>

\* prompt_yes_no("Proceed with installation?", assume_yes): True at once
\* with --yes, otherwise the user's answer (end of input counts as no).
Confirm ==
    /\ pc = "confirm"
    /\ \E answer \in BOOLEAN :
          /\ assume_yes => answer
          /\ pc' = IF answer THEN "enter" ELSE "done"
          /\ events' = events \cup {"confirm"} \cup
                          (IF answer THEN {} ELSE {"cancelled"})
    /\ UNCHANGED << frameVars, error, resolveVars, fsVars, txnVars, localVars,
                    faults_left, last_add >>

\* InstallationTransaction.__enter__: an existing manifest is copied to the
\* backup path. A failing copy raises out of the with statement (no
\* __exit__) and may leave nothing, a partial or a complete backup file.
EnterTransaction ==
    /\ pc = "enter"
    /\ \/ /\ NoFault
          /\ manifest_backup' = IF manifest_file.kind # "absent"
                                THEN manifest_file ELSE manifest_backup
          /\ pc' = "load"
          /\ events' = events \cup {"opened"}
          /\ UNCHANGED error
       \/ /\ manifest_file.kind # "absent"
          /\ Fault
          /\ manifest_backup' \in {manifest_backup, PartialFile, manifest_file}
          /\ pc' = "failed"
          /\ error' = Raise("OSError", << >>, << >>)
          /\ UNCHANGED events
    /\ UNCHANGED << frameVars, resolveVars, tree, dirs, manifest_file,
                    manifest_tmp, txnVars, localVars, last_add >>

\* load_manifest(manifest_path): the dict, or "ManifestError"
load_manifest(file) ==
    IF file.kind = "json" THEN [ err |-> "none", data |-> json_load(file) ]
    ELSE [ err |-> "ManifestError", data |-> EmptyMap ]

\* "Load or create manifest"
LoadManifest ==
    /\ pc = "load"
    /\ LET loaded == IF manifest_file.kind # "absent"
                     THEN load_manifest(manifest_file)
                     ELSE [ err  |-> "none",
                            data |-> [ k \in {"dependencies"} |-> JObj({}) ] ]
       IN  \/ /\ loaded.err = "none"
              /\ NoFault
              /\ manifest_data' = loaded.data
              /\ pkg_queue' = Sorted(packages_to_install, SortedIds)
              /\ pc' = "add"
              /\ UNCHANGED error
           \/ /\ loaded.err # "none"
              /\ NoFault
              /\ RaiseInTransaction("ManifestError")
              /\ UNCHANGED << manifest_data, pkg_queue >>
           \/ /\ manifest_file.kind # "absent"
              /\ Fault
              /\ RaiseInTransaction("ManifestError")
              /\ UNCHANGED << manifest_data, pkg_queue >>
    /\ UNCHANGED << frameVars, resolveVars, fsVars, txnVars, copy_queue,
                    files_to_copy, cur, rb_idx, events, last_add >>

\* "for pkg_id in sorted(packages_to_install):
\*      add_package_to_manifest(pkg_id, manifest_data)"
AddPackage ==
    /\ pc = "add"
    /\ pkg_queue # << >>
    /\ LET r == add_package_to_manifest(Head(pkg_queue), manifest_data)
       IN  /\ manifest_data' = r.manifest
           /\ last_add' = [ id |-> Head(pkg_queue), before |-> manifest_data,
                            after |-> r.manifest, ret |-> r.ret ]
    /\ pkg_queue' = Tail(pkg_queue)
    /\ UNCHANGED << frameVars, pc, error, resolveVars, fsVars, txnVars,
                    copy_queue, files_to_copy, cur, rb_idx, events, faults_left >>

\* "if packages_to_install: write_manifest_atomic(...)", else on to the copy
AddDone ==
    /\ pc = "add"
    /\ pkg_queue = << >>
    /\ IF packages_to_install # {}
       THEN pc' = "wm_open" /\ UNCHANGED copy_queue
       ELSE /\ pc' = "copy"
            /\ copy_queue' = Sorted(scripts_to_copy, SortedNames)
    /\ UNCHANGED << frameVars, error, resolveVars, fsVars, txnVars,
                    manifest_data, pkg_queue, files_to_copy, cur, rb_idx,
                    ghostVars >>

(***************************************************************************)
(* write_manifest_atomic, one action per step                              *)
(***************************************************************************)
\* the temporary file left behind
WriteCleanup_Keep(tmp) == tmp

\* the except clauses: "if tmp_manifest_path.exists(): tmp_manifest_path.unlink()"
WriteCleanup(tmp) == NoFile

\* the except clauses of write_manifest_atomic: the temporary file is
\* removed and ManifestError raised, into the transaction for add, to
\* run_command for install
WriteFails ==
    /\ Fault
    /\ manifest_tmp' = WriteCleanup(manifest_tmp)
    /\ events' = events \cup {"write_failed"}
    /\ error' = Raise("ManifestError", << >>, << >>)
    /\ pc' = IF command = "add" THEN "rb_manifest" ELSE "failed"
    /\ UNCHANGED << manifest_file, copy_queue >>

\* where the manifest path gets its new content: os.replace(tmp, manifest)
ReplaceTarget(tmp, manifest) == tmp

\* open(tmp_manifest_path, "w"): the temporary file exists and is empty
WriteOpen ==
    /\ pc = "wm_open"
    /\ \/ /\ NoFault
          /\ manifest_tmp' = PartialFile
          /\ pc' = "wm_dump"
          /\ UNCHANGED << manifest_file, copy_queue, events, error >>
       \/ /\ WriteFails
    /\ UNCHANGED << frameVars, resolveVars, tree, dirs, manifest_backup, txnVars,
                    manifest_data, pkg_queue, files_to_copy, cur, rb_idx, last_add >>

\* json.dump(manifest_data, f, indent=2)
WriteDump ==
    /\ pc = "wm_dump"
    /\ \/ /\ NoFault
          /\ manifest_tmp' = json_dump(manifest_data)
          /\ pc' = "wm_validate"
          /\ UNCHANGED << manifest_file, copy_queue, events, error >>
       \/ /\ WriteFails
    /\ UNCHANGED << frameVars, resolveVars, tree, dirs, manifest_backup, txnVars,
                    manifest_data, pkg_queue, files_to_copy, cur, rb_idx, last_add >>

\* the temporary file is read back and parsed
WriteValidate ==
    /\ pc = "wm_validate"
    /\ \/ /\ NoFault
          /\ manifest_tmp.kind = "json"
          /\ pc' = "wm_replace"
          /\ UNCHANGED << manifest_file, manifest_tmp, copy_queue, events, error >>
       \/ /\ WriteFails
    /\ UNCHANGED << frameVars, resolveVars, tree, dirs, manifest_backup, txnVars,
                    manifest_data, pkg_queue, files_to_copy, cur, rb_idx, last_add >>

\* os.replace(tmp_manifest_path, manifest_path); the add command goes on to
\* copy the packages in name order, the install command is done
WriteReplace ==
    /\ pc = "wm_replace"
    /\ \/ /\ NoFault
          /\ manifest_file' = ReplaceTarget(manifest_tmp, manifest_file)
          /\ manifest_tmp' = NoFile
          /\ events' = events \cup {"written"}
          /\ IF command = "add"
             THEN /\ pc' = "copy"
                  /\ copy_queue' = Sorted(scripts_to_copy, SortedNames)
             ELSE /\ pc' = "done"
                  /\ UNCHANGED copy_queue
          /\ UNCHANGED error
       \/ /\ WriteFails
    /\ UNCHANGED << frameVars, resolveVars, tree, dirs, manifest_backup, txnVars,
                    manifest_data, pkg_queue, files_to_copy, cur, rb_idx, last_add >>

(***************************************************************************)
(* copy_script_package, one action per step of its loop                    *)
(***************************************************************************)
\* what a failing shutil.copy2(src, dst) can leave at dst: nothing new, a
\* file cut short, or the whole content
CopyOutcomes(files, dst, content) ==
    { files, Put(files, dst, "partial"), Put(files, dst, content) }

\* "for src_item_path in package_path.rglob('*')": the files to copy
CollectFiles(package) ==
    { f \in DOMAIN pkg_files[package] : ~IsSkipped(f) }

\* the next package of "for script_path in sorted(scripts_to_copy, ...)"
StartPackage ==
    /\ pc = "copy"
    /\ copy_queue # << >>
    /\ files_to_copy' = CollectFiles(Head(copy_queue))
    /\ pc' = "file"
    /\ UNCHANGED << frameVars, error, resolveVars, fsVars, txnVars,
                    manifest_data, pkg_queue, copy_queue, cur, rb_idx, ghostVars >>

\* every file of the package is processed: copy_script_package returns
EndPackage ==
    /\ pc = "file"
    /\ files_to_copy = {}
    /\ copy_queue' = Tail(copy_queue)
    /\ pc' = "copy"
    /\ UNCHANGED << frameVars, error, resolveVars, fsVars, txnVars,
                    manifest_data, pkg_queue, files_to_copy, cur, rb_idx, ghostVars >>

\* dirs_to_create: the ancestors of dest that do not exist, outermost first
DirsToCreate(dest) ==
    SelectSeq(ParentDirs(dest), LAMBDA d : d \notin dirs)

\* the directories created without being registered
TrackDirs_None(tracked, ds) == tracked

\* txn.track_directory_creation for each directory of a list
RECURSIVE TrackDirs(_, _)
TrackDirs(tracked, ds) ==
    IF ds = << >> THEN tracked
    ELSE TrackDirs(IF \E i \in 1..Len(tracked) : tracked[i] = Head(ds)
                   THEN tracked ELSE Append(tracked, Head(ds)),
                   Tail(ds))

\* a refusal ends the loop over the package's files
SkipFile_Return(dest) ==
    /\ files_to_copy' = {}
    /\ events' = events \cup {"declined"}
    /\ UNCHANGED << cur, pc >>

\* "if not should_copy: logger.info(Skipped ...); continue"
SkipFile(dest) ==
    /\ files_to_copy' = files_to_copy \ {dest}
    /\ events' = events \cup {"declined"}
    /\ UNCHANGED << cur, pc >>

\* One file of the package, in the order rglob yields: missing parents are
\* tracked, then created; an existing destination asks "Overwrite?" unless
\* --yes, and a refusal skips the file.
CopyPrepare ==
    /\ pc = "file"
    /\ \E dest \in files_to_copy :
          LET missing == dest.dir # << >> /\ dest.dir \notin dirs
              create  == IF missing THEN DirsToCreate(dest) ELSE << >>
          IN  \/ /\ NoFault
                 /\ tracked_dirs' = TrackDirs(tracked_dirs, create)
                 /\ dirs' = dirs \cup Range(create)
                 /\ \E answer \in BOOLEAN :
                       /\ (dest \notin DOMAIN tree \/ assume_yes) => answer
                       /\ IF answer
                          THEN /\ cur' = [ dest |-> dest, backup |-> << >> ]
                               /\ pc' = "backup"
                               /\ UNCHANGED << files_to_copy, events >>
                          ELSE SkipFile(dest)
                 /\ UNCHANGED error
              \/ /\ missing
                 /\ Fault
                 /\ tracked_dirs' = TrackDirs(tracked_dirs, create)
                 /\ \E k \in 0..(Len(create) - 1) :
                       dirs' = dirs \cup Range(SubSeq(create, 1, k))
                 /\ RaiseInTransaction("OSError")
                 /\ UNCHANGED << files_to_copy, cur, events >>
    /\ UNCHANGED << frameVars, resolveVars, tree, manifest_file,
                    manifest_backup, manifest_tmp, tracked_files, committed,
                    manifest_data, pkg_queue, copy_queue, rb_idx, last_add >>

\* An existing destination is copied to its ".usl_backup" sibling; then the
\* file operation is tracked with that backup (or None).
CopyBackup ==
    /\ pc = "backup"
    /\ LET dest   == cur.dest
           backup == UslBackup(dest)
       IN  \/ /\ dest \in DOMAIN tree
              /\ NoFault
              /\ tree' = Put(tree, backup, tree[dest])
              /\ cur' = [cur EXCEPT !.backup = << backup >>]
              /\ tracked_files' = Append(tracked_files,
                                   [ dest |-> dest, backup |-> << backup >> ])
              /\ pc' = "write"
              /\ UNCHANGED error
           \/ /\ dest \in DOMAIN tree
              /\ Fault
              /\ tree' \in CopyOutcomes(tree, backup, tree[dest])
              /\ RaiseInTransaction("OSError")
              /\ UNCHANGED << cur, tracked_files >>
           \/ /\ dest \notin DOMAIN tree
              /\ NoFault
              /\ tracked_files' = Append(tracked_files,
                                   [ dest |-> dest, backup |-> << >> ])
              /\ pc' = "write"
              /\ UNCHANGED << tree, cur, error >>
    /\ UNCHANGED << frameVars, resolveVars, dirs, manifest_file, manifest_backup,
                    manifest_tmp, tracked_dirs, committed, manifest_data, pkg_queue,
                    copy_queue, files_to_copy, rb_idx, events, last_add >>

\* shutil.copy2(src_item_path, dest_item_path)
CopyWrite ==
    /\ pc = "write"
    /\ LET content == pkg_files[Head(copy_queue)][cur.dest]
       IN  \/ /\ NoFault
              /\ tree' = Put(tree, cur.dest, content)
              /\ files_to_copy' = files_to_copy \ {cur.dest}
              /\ cur' = NoCur
              /\ pc' = "file"
              /\ UNCHANGED error
           \/ /\ Fault
              /\ tree' \in CopyOutcomes(tree, cur.dest, content)
              /\ RaiseInTransaction("OSError")
              /\ UNCHANGED << files_to_copy, cur >>
    /\ UNCHANGED << frameVars, resolveVars, dirs, manifest_file, manifest_backup,
                    manifest_tmp, txnVars, manifest_data, pkg_queue, copy_queue, rb_idx,
                    events, last_add >>

(***************************************************************************)
(* InstallationTransaction.commit and __exit__                             *)
(***************************************************************************)
\* the backup paths of the first k tracked file operations
BackupsOf(tracked, k) ==
    { tracked[i].backup[1] : i \in { j \in 1..k : tracked[j].backup # << >> } }

Without(files, paths) == [ f \in DOMAIN files \ paths |-> files[f] ]

\* the transaction object and the files it owns, as commit() sees them
TxnState ==
    [ committed       |-> committed,
      manifest_backup |-> manifest_backup,
      tree            |-> tree,
      tracked_files   |-> tracked_files,
      tracked_dirs    |-> tracked_dirs ]

\* the per-file backups left in place
commit_KeepBackups(txn) ==
    [txn EXCEPT !.committed = TRUE, !.manifest_backup = NoFile,
                !.tracked_files = << >>, !.tracked_dirs = << >>]

\* commit() as a function of the transaction and the files it owns, when no
\* unlink fails
commit(txn) ==
    [ committed       |-> TRUE,
      manifest_backup |-> NoFile,
      tree            |-> Without(txn.tree,
                                  BackupsOf(txn.tracked_files,
                                            Len(txn.tracked_files))),
      tracked_files   |-> << >>,
      tracked_dirs    |-> << >> ]

\* txn.commit(): committed is set first, then the manifest backup and the
\* per-file backups are unlinked and the lists cleared. A failing unlink
\* raises with committed already set, so __exit__ does not roll back.
Commit ==
    /\ pc = "copy"
    /\ copy_queue = << >>
    /\ committed' = TRUE
    /\ \/ /\ NoFault
          /\ LET after == commit(TxnState)
             IN  /\ manifest_backup' = after.manifest_backup
                 /\ tree' = after.tree
                 /\ tracked_files' = after.tracked_files
                 /\ tracked_dirs' = after.tracked_dirs
          /\ pc' = "done"
          /\ events' = events \cup {"committed"}
          /\ UNCHANGED error
       \/ /\ manifest_backup.kind # "absent"
          /\ Fault
          /\ error' = Raise("OSError", << >>, << >>)
          /\ pc' = "failed"
          /\ UNCHANGED << manifest_backup, tree, tracked_files, tracked_dirs,
                          events >>
       \/ /\ Fault
          /\ \E k \in 1..Len(tracked_files) :
                /\ tracked_files[k].backup # << >>
                /\ tracked_files[k].backup[1] \in
                      DOMAIN tree \ BackupsOf(tracked_files, k - 1)
                /\ tree' = Without(tree, BackupsOf(tracked_files, k - 1))
          /\ manifest_backup' = NoFile
          /\ error' = Raise("OSError", << >>, << >>)
          /\ pc' = "failed"
          /\ UNCHANGED << tracked_files, tracked_dirs, events >>
    /\ UNCHANGED << frameVars, resolveVars, dirs, manifest_file, manifest_tmp,
                    localVars, last_add >>

\* __exit__, "Restore manifest backup": an existing backup replaces the
\* manifest. This step is outside any try: a failing unlink or replace
\* raises out of __exit__ and nothing else is rolled back.
RollbackManifest ==
    /\ pc = "rb_manifest"
    /\ \/ /\ NoFault
          /\ IF manifest_backup.kind # "absent"
             THEN /\ manifest_file' = manifest_backup
                  /\ manifest_backup' = NoFile
             ELSE UNCHANGED << manifest_file, manifest_backup >>
          /\ rb_idx' = Len(tracked_files)
          /\ pc' = "rb_files"
          /\ events' = events \cup {"rollback"}
          /\ UNCHANGED error
       \/ /\ manifest_backup.kind # "absent"
          /\ Fault
          /\ \/ manifest_file.kind # "absent" /\ UNCHANGED manifest_file
             \/ manifest_file' = NoFile
          /\ error' = Raise("OSError", << >>, << "__exit__" >>)
          /\ pc' = "failed"
          /\ events' = events \cup {"rollback", "rollback_step_failed"}
          /\ UNCHANGED << manifest_backup, rb_idx >>
    /\ UNCHANGED << frameVars, resolveVars, tree, dirs, manifest_tmp, txnVars,
                    manifest_data, pkg_queue, copy_queue, files_to_copy, cur, last_add >>

\* what one record of tracked_files is rolled back to: the backup is moved
\* over the destination if it exists, otherwise the destination is removed
RestoreOrRemove(files, rec) ==
    IF rec.backup # << >> /\ rec.backup[1] \in DOMAIN files
    THEN Put(Del(files, rec.backup[1]), rec.dest, files[rec.backup[1]])
    ELSE Del(files, rec.dest)

\* "for dest_path, backup_path in reversed(self.tracked_files)": one record;
\* a failure is logged and the loop goes on
RollbackFile ==
    /\ pc = "rb_files"
    /\ rb_idx > 0
    /\ LET rec == tracked_files[rb_idx]
       IN  \/ /\ NoFault
              /\ tree' = RestoreOrRemove(tree, rec)
              /\ UNCHANGED events
           \/ /\ RestoreOrRemove(tree, rec) # tree
              /\ Fault
              /\ events' = events \cup {"rollback_step_failed"}
              /\ UNCHANGED tree
    /\ rb_idx' = rb_idx - 1
    /\ UNCHANGED << frameVars, pc, error, resolveVars, dirs, manifest_file,
                    manifest_backup, manifest_tmp, txnVars, manifest_data, pkg_queue,
                    copy_queue, files_to_copy, cur, last_add >>

RollbackFilesDone ==
    /\ pc = "rb_files"
    /\ rb_idx = 0
    /\ rb_idx' = Len(tracked_dirs)
    /\ pc' = "rb_dirs"
    /\ UNCHANGED << frameVars, error, resolveVars, fsVars, txnVars,
                    manifest_data, pkg_queue, copy_queue, files_to_copy, cur, ghostVars >>

IsPrefix(d, e) == Len(d) <= Len(e) /\ SubSeq(e, 1, Len(d)) = d

\* the check of the directory's content left out
DirIsEmpty_Always(d) == TRUE

\* "not any(dir_path.iterdir())"
DirIsEmpty(d) ==
    /\ \A f \in DOMAIN tree : ~IsPrefix(d, f.dir)
    /\ \A e \in dirs : e # d => ~IsPrefix(d, e)

\* "for dir_path in reversed(self.tracked_dirs)": an existing empty directory
\* is removed; OSError is swallowed
RollbackDir ==
    /\ pc = "rb_dirs"
    /\ rb_idx > 0
    /\ LET d == tracked_dirs[rb_idx]
       IN  \/ /\ NoFault
              /\ dirs' = IF d \in dirs /\ DirIsEmpty(d) THEN dirs \ {d} ELSE dirs
              /\ UNCHANGED events
           \/ /\ d \in dirs /\ DirIsEmpty(d)
              /\ Fault
              /\ events' = events \cup {"rollback_step_failed"}
              /\ UNCHANGED dirs
    /\ rb_idx' = rb_idx - 1
    /\ UNCHANGED << frameVars, pc, error, resolveVars, tree, manifest_file,
                    manifest_backup, manifest_tmp, txnVars, manifest_data, pkg_queue,
                    copy_queue, files_to_copy, cur, last_add >>

\* "Rollback complete."; __exit__ returns False and the exception goes on
RollbackDone ==
    /\ pc = "rb_dirs"
    /\ rb_idx = 0
    /\ pc' = "failed"
    /\ events' = events \cup {"rolled_back"}
    /\ UNCHANGED << frameVars, error, resolveVars, fsVars, txnVars, localVars,
                    faults_left, last_add >>

(***************************************************************************)
(* cmd_install_package and install_unity_package                           *)
(***************************************************************************)
\* "if not validate_package_id(package_id): raise ValueError(...)"
ValidatePackageId ==
    /\ pc = "validate"
    /\ IF validate_package_id(package_id)
       THEN pc' = "install" /\ UNCHANGED error
       ELSE pc' = "failed" /\ error' = Raise("ValueError", package_id, << >>)
    /\ UNCHANGED << frameVars, resolveVars, installVars >>

\* install_unity_package: a missing or unreadable manifest raises
\* ManifestError; an identifier already present returns without writing;
\* otherwise it is added with version "*" and the manifest is written.
InstallUnityPackage ==
    /\ pc = "install"
    /\ LET loaded == load_manifest(manifest_file)
           r      == add_package_to_manifest(package_id, loaded.data)
       IN  \/ /\ loaded.err = "none"
              /\ NoFault
              /\ manifest_data' = r.manifest
              /\ pc' = IF r.ret THEN "wm_open" ELSE "done"
              /\ UNCHANGED error
           \/ /\ loaded.err # "none"
              /\ NoFault
              /\ error' = Raise("ManifestError", << >>, << >>)
              /\ pc' = "failed"
              /\ UNCHANGED manifest_data
           \/ /\ manifest_file.kind # "absent"
              /\ Fault
              /\ error' = Raise("ManifestError", << >>, << >>)
              /\ pc' = "failed"
              /\ UNCHANGED manifest_data
    /\ UNCHANGED << frameVars, resolveVars, fsVars, txnVars, pkg_queue,
                    copy_queue, files_to_copy, cur, rb_idx, events, last_add >>

(***************************************************************************)
(* run_command                                                             *)
(***************************************************************************)
\* "Route to command": the handler of args.command
Route == IF command = "add" THEN "resolve" ELSE "validate"

\* run_command up to the routing: outside a Unity project it returns 1;
\* --init-git runs init_git_repo before the command. (SCRIPTS_DIR exists:
\* it holds the catalog.)
RunCommand ==
    /\ pc = "run"
    /\ IF ~unity_project
       THEN pc' = "refused" /\ exit_code' = 1
       ELSE /\ pc' = IF init_git THEN "git" ELSE Route
            /\ UNCHANGED exit_code
    /\ UNCHANGED << inputVars, parseVars, error, resolveVars, installVars,
                    git_repo >>

\* init_git_repo: nothing if .git exists or the user says no; otherwise
\* "git init" is run, and its failure is logged and swallowed
InitGitRepo ==
    /\ pc = "git"
    /\ \/ /\ git_repo
          /\ UNCHANGED << git_repo, events, faults_left >>
       \/ /\ ~git_repo
          /\ \E answer \in BOOLEAN :
                /\ assume_yes => answer
                /\ \/ /\ ~answer
                      /\ UNCHANGED << git_repo, events, faults_left >>
                   \/ /\ answer
                      /\ events' = events \cup {"git_init"}
                      /\ \/ NoFault /\ git_repo' = TRUE
                         \/ Fault /\ UNCHANGED git_repo
    /\ pc' = Route
    /\ UNCHANGED << inputVars, parseVars, error, resolveVars, fsVars, txnVars,
                    localVars, last_add, exit_code >>

\* the try statement of run_command: 0 when the handler returns, 1 for the
\* tool's own errors and ValueError, 2 for any other exception
ExitCodeOf(err) ==
    IF err.kind = "none" THEN 0
    ELSE IF err.kind \in { "DependencyNotFoundError", "InvalidDependencyFileError",
                           "ManifestError", "ValueError" } THEN 1
    ELSE 2

\* the handler has returned or raised: run_command returns
Return ==
    /\ pc \in {"done", "failed"}
    /\ exit_code = NoExit
    /\ exit_code' = ExitCodeOf(error)
    /\ UNCHANGED << inputVars, parseVars, pc, error, resolveVars, installVars,
                    git_repo >>

\* The same add command is run a second time after it has succeeded: a new
\* process, over the tree and the manifest the first run left.
Reinstall ==
    /\ command = "add"
    /\ pc = "done"
    /\ committed
    /\ exit_code = 0
    /\ "second_run" \notin events
    /\ pc' = "run"
    /\ exit_code' = NoExit
    /\ error' = NoError
    /\ tree0' = tree /\ dirs0' = dirs /\ manifest0' = manifest_file
    /\ root_idx' = 1
    /\ stack' = << >>
    /\ visited' = {}
    /\ scripts_to_copy' = {}
    /\ packages_to_install' = {}
    /\ parse_calls' = [ p \in DOMAIN desc |-> 0 ]
    /\ tracked_files' = << >>
    /\ tracked_dirs' = << >>
    /\ committed' = FALSE
    /\ manifest_data' = EmptyMap
    /\ pkg_queue' = << >>
    /\ copy_queue' = << >>
    /\ files_to_copy' = {}
    /\ cur' = NoCur
    /\ rb_idx' = 0
    /\ events' = {"second_run"} \cup
                  (IF "declined" \in events THEN {"declined_before"} ELSE {})
    /\ last_add' = NoAdd
    /\ UNCHANGED << desc, pkg_files, command, script_names, package_id,
                    assume_yes, init_git, unity_project, fsVars, faults_left,
                    git_repo, parseVars >>

(***************************************************************************)
(* The commands on small projects                                          *)
(***************************************************************************)
XTxt == File(<< >>, "x.txt")

DepsTxt == File(<< >>, "dependencies.txt")

YTxt == File(<< "d", "e" >>, "y.txt")

FileMap(pairs) == [ f \in { pr[1] : pr \in pairs } |->
                      (CHOOSE pr \in pairs : pr[1] = f)[2] ]

\* A depends on B and on an external package; both ship x.txt, B also
\* d/e/y.txt
SharedCatalog ==
    [ desc  |-> [ p \in {PA, PB} |->
                    IF p = PA THEN DescriptorText(<< PB >>, << ID1 >>, FALSE)
                    ELSE AbsentFile ],
      files |-> [ p \in {PA, PB} |->
                    IF p = PA
                    THEN FileMap({ << DepsTxt, "A:deps" >>, << XTxt, "A:x" >> })
                    ELSE FileMap({ << XTxt, "B:x" >>, << YTxt, "B:y" >> }) ] ]

\* A needs two external packages and ships nothing but its descriptor; B
\* depends on a package that is not in the catalog
PackagesCatalog ==
    [ desc  |-> [ p \in {PA, PB} |->
                    IF p = PA THEN DescriptorText(<< >>, << ID1, ID2 >>, FALSE)
                    ELSE DescriptorText(<< PX >>, << ID3 >>, FALSE) ],
      files |-> [ p \in {PA, PB} |->
                    IF p = PA THEN FileMap({ << DepsTxt, "A:deps" >> })
                    ELSE FileMap({ << DepsTxt, "B:deps" >>, << XTxt, "B:x" >> }) ] ]

\* A lists B, whose descriptor repeats a section header
MalformedCatalog ==
    [ desc  |-> [ p \in {PA, PB} |->
                    IF p = PA THEN DescriptorText(<< PB >>, << ID1 >>, FALSE)
                    ELSE DescriptorText(<< >>, << ID2 >>, TRUE) ],
      files |-> [ p \in {PA, PB} |->
                    FileMap({ << DepsTxt, "deps" >>, << XTxt, "x" >> }) ] ]

InstallCatalogs == { SharedCatalog, PackagesCatalog, MalformedCatalog }

\* A depends on B; both ship d/e/y.txt, a path in directories that an
\* install into an empty tree has to create
NestedCatalog ==
    [ desc  |-> [ p \in {PA, PB} |->
                    IF p = PA THEN DescriptorText(<< PB >>, << >>, FALSE)
                    ELSE AbsentFile ],
      files |-> [ p \in {PA, PB} |->
                    IF p = PA THEN FileMap({ << YTxt, "A:y" >> })
                    ELSE FileMap({ << YTxt, "B:y" >> }) ] ]

InstallRoots == { << PA >>, << PB >>, << PA, PB >>, << PX >> }

\* target trees: empty; x.txt present; x.txt and a file at its backup path;
\* directory d present with a file; d/e/y.txt present
InstallTrees ==
    { EmptyTree,
      [ tree |-> FileMap({ << XTxt, "old:x" >> }), dirs |-> {} ],
      [ tree |-> FileMap({ << XTxt, "old:x" >>, << UslBackup(XTxt), "keep" >> }),
        dirs |-> {} ],
      [ tree |-> FileMap({ << File(<< "d" >>, "z.txt"), "old:z" >> }),
        dirs |-> { << "d" >> } ],
      [ tree |-> FileMap({ << YTxt, "old:y" >> }),
        dirs |-> { << "d" >>, << "d", "e" >> } ] }

\* manifests: absent; not JSON; {}; dependencies only; other top-level keys;
\* the dependencies key twice
InstallManifests ==
    { NoFile, CorruptFile, JsonFile(<< >>),
      JsonFile(<< << "dependencies", JObj({ << ID2, "1.0" >> }) >> >>),
      JsonFile(<< << "name", JStr("proj") >>,
                  << "dependencies", JObj({ << ID1, "2.0" >> }) >>,
                  << "registry", JObj({ << ID3, "url" >> }) >> >>),
      JsonFile(<< << "dependencies", JObj({ << ID1, "1.0" >> }) >>,
                  << "name", JStr("proj") >>,
                  << "dependencies", JObj({ << ID3, "3.0" >> }) >> >>) }

\* identifiers for "usl install": two valid ones and two invalid ones
InstallIds == { ID1, ID2, << "a", ".", "b" >>, << "A", ".", "b", ".", "c" >> }

\* every add of the model without --init-git; a few adds and install with
\* every combination of --init-git, .git and project directory; an add of
\* two packages that share a path in a new directory
Init ==
    \/ /\ InitWith(InstallCatalogs, {"add"}, InstallRoots, {<< >>},
                   InstallTrees, InstallManifests, BOOLEAN)
       /\ InitRun("run", {FALSE}, {FALSE}, {TRUE})
    \/ /\ InitWith({SharedCatalog}, {"add"}, {<< >>, << PA >>, << PX >>}, {<< >>},
                   {EmptyTree}, {NoFile, JsonFile(<< >>)}, BOOLEAN)
       /\ InitRun("run", BOOLEAN, BOOLEAN, BOOLEAN)
       /\ init_git \/ ~unity_project
    \/ /\ InitWith({NestedCatalog}, {"add"}, {<< PA >>}, {<< >>},
                   {EmptyTree}, {NoFile}, {TRUE})
       /\ InitRun("run", {FALSE}, {FALSE}, {TRUE})
    \/ /\ InitWith({SharedCatalog}, {"install"}, {<< >>}, InstallIds,
                   {EmptyTree}, InstallManifests, BOOLEAN)
       /\ InitRun("run", BOOLEAN, BOOLEAN, BOOLEAN)

Next ==
    \/ RunCommand
    \/ InitGitRepo
    \/ Return
    \/ Reinstall
    \/ ResolveRoot
    \/ ResolveDep
    \/ ResolveReturn
    \/ ResolveEnd
    \/ ShowPlan
    \/ Confirm
    \/ EnterTransaction
    \/ LoadManifest
    \/ AddPackage
    \/ AddDone
    \/ WriteOpen
    \/ WriteDump
    \/ WriteValidate
    \/ WriteReplace
    \/ StartPackage
    \/ CopyPrepare
    \/ CopyBackup
    \/ CopyWrite
    \/ EndPackage
    \/ Commit
    \/ RollbackManifest
    \/ RollbackFile
    \/ RollbackFilesDone
    \/ RollbackDir
    \/ RollbackDone
    \/ ValidatePackageId
    \/ InstallUnityPackage

Spec == Init /\ [][Next]_vars

(***************************************************************************)
(* parse_dependencies_file alone, one action per line of the file          *)
(***************************************************************************)
\* the longest descriptor of the parser's runs
MaxLines == 4

\* Lines a descriptor is made of: the headers in several spellings, entries
\* that are valid for one section, for the other or for none, a comment that
\* looks like a header and a blank line.
DescriptorLines ==
    { ScriptsHeader,
      << " ", "S", "c", "r", "i", "p", "t", "s", ":", " " >>,
      << "P", "A", "C", "K", "A", "G", "E", "S", ":" >>,
      << "-", " ", "A" >>,
      << "-", "B" >>,
      << " ", "-", "1", "x", " " >>,
      << "-", " " >> \o ID1,
      << "-", " " >> \o ID2,
      << "#", " " >> \o ScriptsHeader,
      << " " >> }

\* one package, A, with each descriptor of up to MaxLines lines, with none
\* and with one that cannot be read
ParseCatalogs ==
    { [ desc  |-> [ p \in {PA} |-> file ],
        files |-> [ p \in {PA} |-> EmptyMap ] ]
      : file \in {AbsentFile, UnreadableFile}
                 \cup { TextFile(lines) : lines \in SeqsUpTo(DescriptorLines, MaxLines) } }

\* open() or the read raises IOError: "Cannot read dependencies file"
ParseReadFails ==
    /\ pc = "parse"
    /\ desc[PA].kind = "unreadable"
    /\ parse_st.err = "none"
    /\ parse_st' = [parse_st EXCEPT !.err = "InvalidDependencyFileError"]
    /\ UNCHANGED << inputVars, runVars, parse_rest, pc, error, resolveVars,
                    installVars >>

\* the body of "for line_num, line in enumerate(f, 1)" for the next line
ParseNextLine ==
    /\ pc = "parse"
    /\ parse_rest # << >>
    /\ parse_st.err = "none"
    /\ parse_st' = ParseLine(parse_st, Head(parse_rest))
    /\ parse_rest' = Tail(parse_rest)
    /\ UNCHANGED << inputVars, runVars, pc, error, resolveVars, installVars >>

\* the end of the file returns the two lists; a raise leaves the loop
ParseEnd ==
    /\ pc = "parse"
    /\ parse_rest = << >> \/ parse_st.err # "none"
    /\ desc[PA].kind = "unreadable" => parse_st.err # "none"
    /\ pc' = "parsed"
    /\ error' = IF parse_st.err = "none" THEN NoError
                ELSE Raise(parse_st.err, << >>, PA)
    /\ UNCHANGED << frameVars, resolveVars, installVars >>

NextParse == ParseReadFails \/ ParseNextLine \/ ParseEnd

\* parse_dependencies_file is called for package A
InitParse ==
    /\ InitWith(ParseCatalogs, {"add"}, {<< PA >>}, {<< >>}, {EmptyTree},
                {NoFile}, {TRUE})
    /\ InitRun("parse", {FALSE}, {FALSE}, {TRUE})

SpecParse == InitParse /\ [][NextParse]_vars

\* The resolution of one root; the sequential program always takes its next
\* step.
FairSpecResolve ==
    /\ InitResolve(ResolveCatalogs, { << n >> : n \in {PA, PB, PX} })
    /\ [][NextResolve]_vars
    /\ WF_vars(NextResolve)

(***************************************************************************)
(* Properties of the resolver                                              *)
(***************************************************************************)
Catalog == DOMAIN desc

ParseOk(p) == parse_dependencies_file(desc[p]).err = "none"

\* the scripts and packages lists of a descriptor that parses
ScriptsOf(p) ==
    IF ParseOk(p) THEN Range(parse_dependencies_file(desc[p]).script_deps) ELSE {}

PackagesOf(p) ==
    IF ParseOk(p) THEN Range(parse_dependencies_file(desc[p]).package_deps) ELSE {}

\* the packages reachable from S through scripts dependencies
RECURSIVE Closure(_)
Closure(S) ==
    LET T == S \cup UNION { ScriptsOf(p) \cap Catalog : p \in S } IN
    IF T = S THEN S ELSE Closure(T)

Reachable == Closure(Range(script_names) \cap Catalog)

ResolutionErrors ==
    { "DependencyNotFoundError", "InvalidDependencyFileError", "RecursionError" }

ResolutionFailed == error.kind \in ResolutionErrors

ResolutionReturned == pc # "resolve" /\ ~ResolutionFailed

\* A resolves to B and B to A, and nothing else is listed or requested.
TwoCycle ==
    /\ script_names = << PA >>
    /\ {PA, PB} \subseteq Catalog
    /\ ParseOk(PA) /\ ParseOk(PB)
    /\ ScriptsOf(PA) = {PB}
    /\ ScriptsOf(PB) = {PA}

\* C3: resolution always comes to an end, never by exhausting the
\* interpreter's stack, whatever cycles or self-dependencies the catalog
\* has; for the two-package cycle resolving A returns exactly {A, B}.
C3_ResolveTerminates ==
    /\ <>(pc # "resolve")
    /\ [](error.kind # "RecursionError")
    /\ [](TwoCycle => /\ ~ResolutionFailed
                      /\ pc # "resolve" => scripts_to_copy = {PA, PB})

C3_Witness ==
    /\ TwoCycle
    /\ pc = "plan"
    /\ scripts_to_copy = {PA, PB}

\* every root and every name a reachable descriptor lists is in the catalog,
\* and every reachable descriptor parses
AllPresent ==
    /\ Range(script_names) \subseteq Catalog
    /\ \A p \in Reachable : ParseOk(p) /\ ScriptsOf(p) \subseteq Catalog

\* C4: when every referenced name is in the catalog, resolution succeeds and
\* its result is the transitive closure: the packages reachable from the
\* roots and the union of their external identifiers.
C4_ResultIsClosure ==
    AllPresent =>
        /\ ~ResolutionFailed
        /\ ResolutionReturned =>
              /\ scripts_to_copy = Reachable
              /\ packages_to_install = UNION { PackagesOf(p) : p \in Reachable }

\* the diamond, resolved: D reached through B and through C
C4_Witness ==
    /\ AllPresent
    /\ ResolutionReturned
    /\ script_names = << PA >>
    /\ scripts_to_copy = {PA, PB, PC, PD}
    /\ packages_to_install = {ID1, ID2, ID3}

\* C5: during the resolution phase of one install, each package's
\* descriptor is parsed at most once.
C5_ParsedAtMostOnce == \A p \in Catalog : parse_calls[p] <= 1

\* a root is not in the catalog, or a reachable package lists a valid name
\* that is not
SomeNameMissing ==
    \/ ~(Range(script_names) \subseteq Catalog)
    \/ \E p \in Reachable : ~(ScriptsOf(p) \subseteq Catalog)

\* C6 as stated: with a name missing, the install ends with
\* DependencyNotFoundError naming a name that is not in the catalog.
C6_MissingRaisesNotFound ==
    (SomeNameMissing /\ pc # "resolve") =>
        /\ error.kind = "DependencyNotFoundError"
        /\ error.name \notin Catalog

\* C6 amended: with a name missing, resolution never returns a result; it
\* ends with DependencyNotFoundError naming a name that is not in the
\* catalog (requested as a root, or listed by the package named as the
\* requester) or, when a descriptor that does not parse was visited first,
\* with InvalidDependencyFileError for that descriptor.
C6_MissingNeverReturns ==
    (SomeNameMissing /\ pc # "resolve") =>
        /\ ~ResolutionReturned
        /\ \/ /\ error.kind = "DependencyNotFoundError"
              /\ error.name \notin Catalog
              /\ \/ error.by = << >> /\ error.name \in Range(script_names)
                 \/ error.by \in Reachable /\ error.name \in ScriptsOf(error.by)
           \/ /\ error.kind = "InvalidDependencyFileError"
              /\ error.by \in Catalog
              /\ ~ParseOk(error.by)

\* a dependency of a dependency is missing and is named with its requester
C6_Witness ==
    /\ pc = "failed"
    /\ script_names = << PA >>
    /\ error = Raise("DependencyNotFoundError", PX, PD)

(***************************************************************************)
(* Properties of the installation                                          *)
(***************************************************************************)
\* the transaction was opened, an error was raised before commit() and
\* __exit__ has returned, every step of the rollback having succeeded
RolledBack ==
    /\ pc = "failed"
    /\ "opened" \in events
    /\ ~committed
    /\ "rolled_back" \in events
    /\ "rollback_step_failed" \notin events

\* C1: after a failed install has been rolled back, the target tree holds
\* exactly the files it held before, with their contents.
C1_RollbackRestoresTree == RolledBack => tree = tree0

\* C2: after a failed install has been rolled back, the manifest file is as
\* it was before the install: the same content, or absent if it was absent.
C2_RollbackRestoresManifest == RolledBack => manifest_file = manifest0

\* C7: an error of the resolution phase ends the command with nothing done:
\* no plan, no prompt, no transaction, no manifest backup or temporary file,
\* manifest and target tree as they were.
C7_ResolutionErrorsAbortEarly ==
    ResolutionFailed =>
        /\ pc = "failed"
        /\ events \cap {"plan", "confirm", "opened", "rollback"} = {}
        /\ manifest_backup = NoFile
        /\ manifest_tmp = NoFile
        /\ manifest_file = manifest0
        /\ tree = tree0
        /\ dirs = dirs0
        /\ tracked_files = << >>
        /\ tracked_dirs = << >>

\* the second root fails to resolve after the first one has resolved, over
\* a target tree and a manifest that exist
C7_Witness ==
    /\ ResolutionFailed
    /\ scripts_to_copy # {}
    /\ tree0 # EmptyMap
    /\ manifest0.kind = "json"

WriteSteps == { "wm_open", "wm_dump", "wm_validate", "wm_replace" }

\* write_manifest_atomic has just failed: in cmd_add_scripts the rollback
\* is about to start, in install_unity_package the command has ended
WriteJustFailed ==
    /\ "write_failed" \in events
    /\ "rollback" \notin events
    /\ pc \in {"rb_manifest", "failed"}

DepsOf(dict) ==
    IF "dependencies" \in DOMAIN dict THEN dict["dependencies"].o ELSE {}

\* the dependencies of the manifest file before the command
Deps0 == IF manifest0.kind = "json" THEN DepsOf(json_load(manifest0)) ELSE {}

OtherKeys(dict) == [ k \in DOMAIN dict \ {"dependencies"} |-> dict[k] ]

\* C9: a call of add_package_to_manifest returns True and inserts the
\* identifier with "*" exactly when it was absent, and otherwise changes
\* nothing and returns False; whatever was in dependencies before the
\* command stays there with its version, in memory and in the file.
C9_OnlyAddsKeys ==
    /\ last_add # NoAdd =>
          LET present == << last_add.id >> \in
                            { << pr[1] >> : pr \in DepsOf(last_add.before) }
          IN  /\ last_add.ret = ~present
              /\ present => last_add.after = last_add.before
              /\ ~present =>
                    /\ DepsOf(last_add.after) =
                          DepsOf(last_add.before) \cup { << last_add.id, "*" >> }
                    /\ OtherKeys(last_add.after) = OtherKeys(last_add.before)
    /\ pc \in {"add"} \cup WriteSteps => Deps0 \subseteq DepsOf(manifest_data)
    /\ manifest_file.kind = "json" => Deps0 \subseteq DepsOf(json_load(manifest_file))

\* two calls in a row: the first identifier was inserted, the second was
\* there with a version of its own
C9_Witness ==
    /\ pc = "add"
    /\ last_add.id = ID2
    /\ ~last_add.ret
    /\ DepsOf(manifest_data) = { << ID1, "*" >>, << ID2, "1.0" >> }

\* C10: after a successful command that wrote the manifest, every top-level
\* key other than dependencies has the value it had in the file before.
C10_OtherKeysPreserved ==
    (pc = "done" /\ "written" \in events /\ manifest0.kind = "json") =>
        LET before == json_load(manifest0)
            after  == json_load(manifest_file)
        IN  /\ manifest_file.kind = "json"
            /\ \A k \in DOMAIN before \ {"dependencies"} :
                  k \in DOMAIN after /\ after[k] = before[k]

\* an install over a manifest with a name and a registry has been committed
C10_Witness ==
    /\ pc = "done"
    /\ command = "add"
    /\ "written" \in events
    /\ manifest0.kind = "json"
    /\ {"name", "registry"} \subseteq DOMAIN json_load(manifest0)
    /\ << ID1, "*" >> \notin Deps0

(***************************************************************************)
(* Properties of the transaction's life cycle                              *)
(***************************************************************************)
\* the with statement of cmd_add_scripts has been entered and left
TransactionEnded == "opened" \in events /\ pc \in {"done", "failed"}

\* the destination of a tracked record is as it was before the install
Undone(rec) ==
    IF rec.dest \in DOMAIN tree0
    THEN rec.dest \in DOMAIN tree /\ tree[rec.dest] = tree0[rec.dest]
    ELSE rec.dest \notin DOMAIN tree

\* commit() has been called or a rollback has been started, never both; a
\* transaction that has ended is in one of the two
CommitOrRollback ==
    /\ ~(committed /\ "rollback" \in events)
    /\ TransactionEnded => (committed \/ "rollback" \in events)

\* C11: a transaction ends committed or rolled back, never both; when it is
\* left without commit() every tracked file is as it was before the install
\* and every tracked directory is gone.
C11_CommittedOrUndone ==
    /\ CommitOrRollback
    /\ (TransactionEnded /\ ~committed) =>
          /\ \A i \in DOMAIN tracked_files : Undone(tracked_files[i])
          /\ \A i \in DOMAIN tracked_dirs : tracked_dirs[i] \notin dirs

\* C12: a rollback that has been started goes through all of its steps,
\* whichever of them fail.
C12_RollbackGoesOn ==
    (pc = "failed" /\ "rollback" \in events) => "rolled_back" \in events

RollbackSteps == { "rb_manifest", "rb_files", "rb_dirs" }

\* C13: no step of the rollback changes the exception that is on its way
\* to the caller.
C13_RollbackKeepsException ==
    [][(pc \in RollbackSteps) => (error' = error)]_vars

\* C14: a second run of the same add command, every overwrite confirmed,
\* that fails and is rolled back leaves the tree and the manifest as the
\* first run left them.
C14_SecondRunRolledBack ==
    ( /\ RolledBack
      /\ "second_run" \in events
      /\ events \cap {"declined", "declined_before"} = {} ) =>
        /\ tree = tree0
        /\ manifest_file = manifest0

\* C15: a refused overwrite leaves the tree, the tracked lists and the
\* exception state alone and goes on with the package's other files; with no
\* failure the install then commits.
C15_DeclineSkipsFile ==
    /\ [][(pc = "file" /\ pc' = "file") =>
             /\ \E dest \in files_to_copy :
                   /\ dest \in DOMAIN tree
                   /\ files_to_copy' = files_to_copy \ {dest}
             /\ tree' = tree
             /\ tracked_files' = tracked_files
             /\ error' = NoError
             /\ error = NoError ]_vars
    /\ []( ( /\ "declined" \in events
             /\ pc \in {"done", "failed"}
             /\ faults_left = MaxFaults ) => (pc = "done" /\ committed) )

\* the overwrite of x.txt was refused and the install committed with the
\* old content in place
C15_Witness ==
    /\ "declined" \in events
    /\ "second_run" \notin events
    /\ pc = "done"
    /\ committed
    /\ XTxt \in DOMAIN tree0
    /\ tree[XTxt] = tree0[XTxt]
    /\ YTxt \in DOMAIN tree /\ YTxt \notin DOMAIN tree0

(***************************************************************************)
(* Properties of the commands                                              *)
(***************************************************************************)
\* cmd_add_scripts has resolved its names and found nothing to add
NothingToAdd ==
    /\ command = "add"
    /\ pc \notin {"run", "git", "refused", "resolve"}
    /\ ~ResolutionFailed
    /\ scripts_to_copy = {}
    /\ packages_to_install = {}

\* the user has answered no to "Proceed with installation?"
PlanDeclined == command = "add" /\ "cancelled" \in events

\* C16: with nothing to add, or with the plan declined, the command ends
\* without error and without a transaction, a manifest backup or a temporary
\* file, the manifest and the target tree are as they were, and run_command
\* returns 0.
C16_NoOpSucceeds ==
    (NothingToAdd \/ PlanDeclined) =>
        /\ pc = "done"
        /\ error = NoError
        /\ events \cap {"opened", "rollback", "written"} = {}
        /\ manifest_backup = NoFile
        /\ manifest_tmp = NoFile
        /\ manifest_file = manifest0
        /\ tree = tree0
        /\ dirs = dirs0
        /\ exit_code \in {NoExit, 0}

\* the plan was declined over an existing tree and manifest; exit code 0
C16_Witness ==
    /\ PlanDeclined
    /\ exit_code = 0
    /\ tree0 # EmptyMap
    /\ manifest0.kind = "json"

\* C19: an install command with a malformed identifier does nothing before
\* it is rejected: git init is not run, the manifest is neither read nor
\* written.
C19_BadIdRejectedFirst ==
    (command = "install" /\ ~validate_package_id(package_id)) =>
        /\ "git_init" \notin events
        /\ pc \notin {"install"} \cup WriteSteps
        /\ manifest_data = EmptyMap
        /\ manifest_file = manifest0
        /\ manifest_tmp = NoFile

\* the identifiers the command has to record in the manifest
ToRecord ==
    IF command = "add" THEN packages_to_install
    ELSE IF validate_package_id(package_id) THEN {package_id} ELSE {}

\* the command has succeeded after recording identifiers
Recorded ==
    /\ pc = "done"
    /\ error = NoError
    /\ ToRecord # {}
    /\ command = "add" => committed

\* C20: with no manifest file at the start, a command that has identifiers
\* to record raises no ManifestError (no I/O operation failing), and when it
\* has succeeded the manifest exists with exactly those identifiers, each
\* mapped to "*".
C20_ManifestSynthesized ==
    (manifest0 = NoFile /\ ToRecord # {}) =>
        /\ faults_left = MaxFaults => error.kind # "ManifestError"
        /\ Recorded =>
              /\ manifest_file.kind = "json"
              /\ DepsOf(json_load(manifest_file)) = { << id, "*" >> : id \in ToRecord }

(***************************************************************************)
(* Properties of the descriptor parser                                     *)
(***************************************************************************)
\* the descriptor being parsed and how many of its lines have been read
Lines == desc[PA].lines

Consumed == Len(Lines) - Len(parse_rest)

\* the section a line opens, by its trimmed text compared without case
HeaderKind(line) ==
    LET t == Lower(Strip(line)) IN
    IF t = ScriptsHeader THEN "scripts"
    ELSE IF t = PackagesHeader THEN "packages"
    ELSE "none"

\* line i is a header that an earlier line has already opened
SecondHeaderAt(i) ==
    /\ HeaderKind(Lines[i]) # "none"
    /\ \E j \in 1..(i - 1) : HeaderKind(Lines[j]) = HeaderKind(Lines[i])

\* what the parser has raised after the lines read so far, and at the end
RaisedAtSecondHeader ==
    /\ parse_st.err \in {"none", "InvalidDependencyFileError"}
    /\ parse_st.err # "none" <=> \E i \in 1..Consumed : SecondHeaderAt(i)
    /\ parse_st.err # "none" =>
          /\ SecondHeaderAt(Consumed)
          /\ \A i \in 1..(Consumed - 1) : ~SecondHeaderAt(i)
    /\ pc = "parsed" =>
          /\ parse_st = parse_dependencies_file(desc[PA])
          /\ error.kind = parse_st.err
          /\ (\A i \in 1..Len(Lines) : ~SecondHeaderAt(i)) => error = NoError

\* C17 as stated: the parser raises InvalidDependencyFileError at the line
\* where a header occurs for the second time, and a file whose headers occur
\* at most once each never raises it.
C17_DuplicateHeaderRaises == RaisedAtSecondHeader

\* C17, amended: for a descriptor that can be read the parser raises
\* InvalidDependencyFileError at the line where a header occurs for the
\* second time and at no other; one that cannot be read raises it too.
C17_DuplicateHeaderRaisesIfReadable ==
    /\ desc[PA].kind # "unreadable" => RaisedAtSecondHeader
    /\ (desc[PA].kind = "unreadable" /\ pc = "parsed") =>
          /\ error.kind = "InvalidDependencyFileError"
          /\ parse_st = parse_dependencies_file(desc[PA])

\* "scripts:" and " Scripts: " in one file: raised at the third of four lines
C17_Witness ==
    /\ pc = "parsed"
    /\ error.kind = "InvalidDependencyFileError"
    /\ Len(Lines) = 4
    /\ Consumed = 3
    /\ Lines[1] = ScriptsHeader
    /\ Lines[3] # ScriptsHeader

\* the section line i lies in: the one the last header before it opened
SectionAt(i) ==
    LET hs == { j \in 1..(i - 1) : HeaderKind(Lines[j]) # "none" } IN
    IF hs = {} THEN "none"
    ELSE HeaderKind(Lines[CHOOSE j \in hs : \A k \in hs : k <= j])

\* line i is an entry line, "- name"
IsEntry(i) ==
    /\ HeaderKind(Lines[i]) = "none"
    /\ Strip(Lines[i]) # << >>
    /\ Head(Strip(Lines[i])) = "-"

EntryName(i) == Strip(Tail(Strip(Lines[i])))

ValidFor(section, name) ==
    IF section = "scripts" THEN validate_dependency_name(name)
    ELSE validate_package_id(name)

\* the lines that are the first occurrence of a valid entry of a section
FirstValid(section) ==
    { i \in 1..Len(Lines) :
        /\ SectionAt(i) = section
        /\ IsEntry(i)
        /\ ValidFor(section, EntryName(i))
        /\ \A j \in 1..(i - 1) :
              ~(SectionAt(j) = section /\ IsEntry(j) /\ EntryName(j) = EntryName(i)) }

\* their names in file order
Expected(section) ==
    LET idx == SelectSeq([ i \in 1..Len(Lines) |-> i ],
                         LAMBDA i : i \in FirstValid(section))
    IN  [ k \in 1..Len(idx) |-> EntryName(idx[k]) ]

NoRepeat(seq) == \A i, j \in 1..Len(seq) : i # j => seq[i] # seq[j]

\* C18: a descriptor that parses returns, for each section, the first
\* occurrences of its valid entries in file order: every name matches its
\* grammar, none is repeated, invalid and repeated lines change nothing else.
C18_ListsAreFirstValidEntries ==
    (pc = "parsed" /\ error = NoError) =>
        /\ parse_st.script_deps = Expected("scripts")
        /\ parse_st.package_deps = Expected("packages")
        /\ \A i \in 1..Len(parse_st.script_deps) :
              validate_dependency_name(parse_st.script_deps[i])
        /\ \A i \in 1..Len(parse_st.package_deps) :
              validate_package_id(parse_st.package_deps[i])
        /\ NoRepeat(parse_st.script_deps)
        /\ NoRepeat(parse_st.package_deps)

\* B, an invalid name, A and B again under scripts: B and A are returned
C18_Witness ==
    /\ pc = "parsed"
    /\ error = NoError
    /\ Len(Lines) = 4
    /\ HeaderKind(Lines[1]) = "scripts"
    /\ parse_st.script_deps = << PB, PA >>
    /\ \E i \in 2..4 : IsEntry(i) /\ i \notin FirstValid("scripts")

(***************************************************************************)
(* Properties of the manifest write and of the transaction's bookkeeping   *)
(***************************************************************************)
\* the identifiers to record that the manifest did not hold before
NewlyAdded == { id \in ToRecord : ~(\E pr \in Deps0 : pr[1] = id) }

\* the command has returned normally after its manifest phase
Installed ==
    /\ pc = "done"
    /\ error = NoError
    /\ IF command = "add" THEN committed ELSE validate_package_id(package_id)

\* C21: the manifest is written at most once per install, and a finished
\* install has written it exactly when some identifier was newly inserted.
C21_WrittenIffAdded ==
    /\ [][(pc = "wm_replace" /\ "written" \in events') =>
             ~("written" \in events)]_vars
    /\ [](Installed => ("written" \in events <=> NewlyAdded # {}))

\* the paths of a tree that a step creates or gives new content
WrittenPaths(before, after) ==
    { f \in DOMAIN after : f \notin DOMAIN before \/ after[f] # before[f] }

\* C22: in every step of the copy, a destination that is written is the one
\* registered last, the directories a step creates are registered, and the
\* registration of a destination carries a backup holding its current
\* content exactly when the destination exists.
C22_TrackedBeforeEffect ==
    [][ /\ pc = "write" =>
              /\ tracked_files # << >>
              /\ tracked_files[Len(tracked_files)].dest = cur.dest
              /\ WrittenPaths(tree, tree') \subseteq {cur.dest}
        /\ pc = "file" => tree' = tree
        /\ pc = "backup" =>
              WrittenPaths(tree, tree') \subseteq {UslBackup(cur.dest)}
        /\ pc = "file" => (dirs' \ dirs) \subseteq Range(tracked_dirs')
        /\ pc # "file" => dirs' \subseteq dirs
        /\ (pc = "backup" /\ pc' = "write") =>
              /\ Len(tracked_files') = Len(tracked_files) + 1
              /\ LET rec == tracked_files'[Len(tracked_files')] IN
                 /\ rec.dest = cur.dest
                 /\ IF cur.dest \in DOMAIN tree
                    THEN /\ rec.backup # << >>
                         /\ rec.backup[1] \in DOMAIN tree'
                         /\ tree'[rec.backup[1]] = tree[cur.dest]
                         /\ tree'[cur.dest] = tree[cur.dest]
                    ELSE /\ rec.backup = << >>
                         /\ tree' = tree
        /\ (pc = "backup" /\ pc' # "write") => tracked_files' = tracked_files
      ]_vars

\* x.txt, present before the install, is about to be overwritten: it is
\* registered with a backup of the old content, after d/e/y.txt was
\* registered with none and the directories made for it were registered
C22_Witness ==
    /\ pc = "write"
    /\ ~("second_run" \in events)
    /\ cur.dest = XTxt
    /\ XTxt \in DOMAIN tree0
    /\ tracked_files = << [ dest |-> YTxt, backup |-> << >> ],
                          [ dest |-> XTxt, backup |-> << UslBackup(XTxt) >> ] >>
    /\ tree[UslBackup(XTxt)] = tree0[XTxt]
    /\ tracked_dirs = << << "d" >>, << "d", "e" >> >>
    /\ { << "d" >>, << "d", "e" >> } \cap dirs0 = {}

\* loading or writing the manifest has raised ManifestError
ManifestFailed == error.kind = "ManifestError" \/ "write_failed" \in events

\* C23: when loading or writing the manifest raises ManifestError, no file
\* has been copied and no directory created, and none is afterwards.
C23_ManifestErrorBeforeCopy ==
    /\ [](ManifestFailed =>
             /\ tree = tree0
             /\ dirs = dirs0
             /\ tracked_files = << >>
             /\ tracked_dirs = << >>
             /\ pc \in {"rb_manifest", "rb_files", "rb_dirs", "failed"})
    /\ [][ManifestFailed => (tree' = tree /\ dirs' = dirs)]_vars

\* the write of the manifest failed in an add that had packages to copy
\* into a non-empty tree, and the rollback is over
C23_Witness ==
    /\ command = "add"
    /\ error.kind = "ManifestError"
    /\ "write_failed" \in events
    /\ "rolled_back" \in events
    /\ scripts_to_copy # {}
    /\ tree # EmptyMap

\* C24: when commit() returns, the state is the one commit() computes: the
\* manifest backup and every registered per-file backup are gone, both lists
\* are empty, and commit() applied again gives the same state.
C24_CommitCleansUp ==
    [][(pc = "copy" /\ pc' = "done") =>
          /\ TxnState' = commit(TxnState)
          /\ committed'
          /\ manifest_backup' = NoFile
          /\ \A i \in DOMAIN tracked_files :
                tracked_files[i].backup # << >> =>
                   ~(tracked_files[i].backup[1] \in DOMAIN tree')
          /\ tracked_files' = << >>
          /\ tracked_dirs' = << >>
          /\ commit(TxnState') = TxnState' ]_vars

\* committed after overwriting x.txt, with a manifest that had a backup:
\* neither backup is left
C24_Witness ==
    /\ "committed" \in events
    /\ ~("second_run" \in events)
    /\ manifest0.kind = "json"
    /\ XTxt \in DOMAIN tree0
    /\ tree[XTxt] # tree0[XTxt]
    /\ ~(UslBackup(XTxt) \in DOMAIN tree)
    /\ manifest_backup = NoFile
    /\ tracked_files = << >>

\* nothing lies in or below directory d: no file and no directory
HoldsNothing(d) ==
    /\ ~(\E f \in DOMAIN tree : IsPrefix(d, f.dir))
    /\ ~(\E e \in dirs : e # d /\ IsPrefix(d, e))

\* C25: only the rollback removes directories, one per step in reverse
\* registration order; a directory it removes was registered by this
\* transaction, did not exist before the install and holds nothing when it
\* is removed; a registered directory never precedes one of its ancestors
\* in the list.
C25_OnlyEmptyNewDirsRemoved ==
    /\ [][ /\ pc # "rb_dirs" => dirs \subseteq dirs'
           /\ (pc = "rb_dirs" /\ rb_idx > 0) =>
                 /\ rb_idx' = rb_idx - 1
                 /\ (dirs \ dirs') \subseteq {tracked_dirs[rb_idx]}
                 /\ \A d \in dirs \ dirs' :
                       /\ ~(d \in dirs0)
                       /\ HoldsNothing(d) ]_vars
    /\ [](\A i, j \in DOMAIN tracked_dirs :
             (i < j) => ~IsPrefix(tracked_dirs[j], tracked_dirs[i]))

\* d, which held a file before the install, is kept and d/e, made for
\* d/e/y.txt, is removed by the rollback
C25_Witness ==
    /\ pc = "failed"
    /\ "rolled_back" \in events
    /\ tracked_dirs = << << "d", "e" >> >>
    /\ dirs0 = { << "d" >> }
    /\ dirs = dirs0

\* C26: after a rollback in which no step failed, the directories of the
\* target tree are those it had before the install.
C26_RollbackRemovesNewDirs == RolledBack => dirs = dirs0

\* the with block of cmd_add_scripts is running: neither commit() nor the
\* rollback has started
TransactionOpen ==
    /\ command = "add"
    /\ pc \in {"load", "add", "copy", "file", "backup", "write"} \cup WriteSteps

\* the backup paths registered in tracked_files
RegisteredBackups ==
    { tracked_files[i].backup[1] :
        i \in { j \in DOMAIN tracked_files : tracked_files[j].backup # << >> } }

\* C27: while the transaction is open every registered backup exists, it is
\* written with the destination's content when its record is registered,
\* and no later step of the install changes it.
C27_BackupsKeepPriorContent ==
    /\ [](TransactionOpen => RegisteredBackups \subseteq DOMAIN tree)
    /\ [][(TransactionOpen /\ ~committed') =>
             /\ \A b \in RegisteredBackups :
                   b \in DOMAIN tree' /\ tree'[b] = tree[b]
             /\ \A i \in DOMAIN tracked_files' \ DOMAIN tracked_files :
                   tracked_files'[i].backup # << >> =>
                      tree'[tracked_files'[i].backup[1]] =
                         tree[tracked_files'[i].dest] ]_vars

\* the install has ended: commit() has returned, or a rollback in which no
\* step failed is over
InstallEnded ==
    \/ /\ command = "add" /\ pc = "done" /\ "committed" \in events
    \/ RolledBack

\* C28: when an install has ended no auxiliary file of its own is left: no
\* manifest backup, no temporary manifest, and no .usl_backup file that was
\* not in the tree before.
C28_NoAuxiliaryFilesLeft ==
    InstallEnded =>
        /\ manifest_backup = NoFile
        /\ manifest_tmp = NoFile
        /\ \A f \in DOMAIN tree : f.bk > 0 => f \in DOMAIN tree0

\* the destinations of the files of the resolved packages
Destinations == UNION { DOMAIN pkg_files[p] : p \in scripts_to_copy }

\* C29: when an install has ended, every file that was in the tree before
\* and is not a destination of a file of a resolved package is there with
\* its content; and at no time does the tree hold a file with an excluded
\* name that it did not hold before.
C29_OtherFilesUntouched ==
    /\ InstallEnded =>
          \A f \in DOMAIN tree0 \ Destinations :
             f \in DOMAIN tree /\ tree[f] = tree0[f]
    /\ \A f \in DOMAIN tree :
          (f.bk = 0 /\ f.name \in SKIP_FILES) =>
             (f \in DOMAIN tree0 /\ tree[f] = tree0[f])

=============================================================================
